---- MODULE Spec2Model ----
(***************************************************************************)
(* Model of builder/core/toolchain.py: the version banner parser, the tool *)
(* locator, the cross-compile policy, MSVC discovery, the default compiler *)
(* cache and the Toolchain descriptor.                                     *)
(*                                                                         *)
(* Strings are TLA+ strings; "None" stands for Python's None.  A pair      *)
(* (a, b) returned by the code is the tuple <<a, b>>.                      *)
(***************************************************************************)
EXTENDS Integers, Sequences, FiniteSets, TLC

VARIABLES
    hostOS,             \* current_os()
    hostArch,           \* current_arch()
    fs,                 \* the search path: executable name -> banner it prints
    envCC,              \* os.environ.get('CC', None)
    vswhere,            \* whether the vswhere helper is on the search path
    vsInstalled,        \* Visual Studio installations on the machine (int versions)
    _default_compiler,  \* Toolchain._default_compiler
    _default_version,   \* Toolchain._default_version
    desc,               \* the Toolchain object last constructed
    built,              \* whether vswhere was on the search path when desc was
                        \* constructed, and when the spec= it was built from was
    op,                 \* the operation last called
    args,               \* its arguments
    ret,                \* what it returned
    events,             \* the collaborators it invoked, in order
    probes,             \* how often _find_compiler has run in this process
    first,              \* what the first default_compiler() of the process returned
    threads             \* the threads inside default_compiler(): where each is,
                        \* its locals and what it returned

vars == <<hostOS, hostArch, fs, envCC, vswhere, vsInstalled, _default_compiler,
          _default_version, desc, built, op, args, ret, events, probes, first,
          threads>>

envVars == <<hostOS, hostArch, fs, envCC, vsInstalled>>

None == "None"

\* Python truthiness of a str-or-None value
Truthy(x) == x # None /\ x # ""

-----------------------------------------------------------------------------
(* Bounds of the model *)

\* at most this many executables are on the search path of a host
MaxInstalled == 1
\* and at most this many where the tool locator is examined alone
MaxOnPath == 2
\* the _find_compiler counter stops counting here
MaxProbes == 2

-----------------------------------------------------------------------------
(* Collaborators: builder.core.data, builder.core.host, builder.core.util *)

\* COMPILERS[family]['versions'].keys()
COMPILERS ==
    [gcc        |-> {"default", "4.8", "9", "10"},
     clang      |-> {"default", "9", "11"},
     appleclang |-> {"default", "11", "14"},
     msvc       |-> {"default", "15", "16"}]

\* the characters of a version identifier, as code points
Chars(v) ==
    CASE v = "4.8" -> <<52, 46, 56>>
      [] v = "9"   -> <<57>>
      [] v = "10"  -> <<49, 48>>
      [] v = "11"  -> <<49, 49>>
      [] v = "12"  -> <<49, 50>>
      [] v = "14"  -> <<49, 52>>
      [] v = "15"  -> <<49, 53>>
      [] v = "16"  -> <<49, 54>>
      [] v = "17"  -> <<49, 55>>
      [] OTHER     -> <<>>

\* int(x)
IntOf(v) ==
    CASE v = "9"  -> 9
      [] v = "10" -> 10
      [] v = "11" -> 11
      [] v = "12" -> 12
      [] v = "14" -> 14
      [] v = "15" -> 15
      [] v = "16" -> 16
      [] v = "17" -> 17
      [] OTHER    -> 0

\* normalize_arch(arch)
normalize_arch(arch) ==
    CASE arch = "aarch64" -> "arm64"
      [] arch = "x86_64"  -> "x64"
      [] arch = "amd64"   -> "x64"
      [] OTHER            -> arch

\* current_os(), current_arch()
current_os == hostOS
current_arch == hostArch

\* where executables live
BinDir == "/usr/bin/"

\* util.where(exe, resolve_symlinks=False)
where(exe) == IF exe # None /\ exe \in DOMAIN fs THEN BinDir \o exe ELSE None

\* the text each kind of executable prints for --version: lines of
\* space-separated tokens
BannerText(b) ==
    CASE b = "clang11" -> << <<"Ubuntu", "clang", "version", "11.0.1">>,
                             <<"Target:", "x86_64-pc-linux-gnu">> >>
      [] b = "apple14" -> << <<"Apple", "clang", "version", "14.0.0">>,
                             <<"Target:", "arm64-apple-darwin">> >>
      [] b = "gcc9"    -> << <<"gcc", "(GCC)", "9.2.0">>,
                             <<"Copyright", "(C)", "2019">> >>
      [] b = "gcc48"   -> << <<"gcc", "(GCC)", "4.8.5">> >>
      [] b = "applellvm9" -> << <<"Apple", "LLVM", "version", "9.0.0",
                                  "(clang-900.0.39.2)">> >>
      [] b = "noteclang"  -> << <<"warning:", "unused", "option">>,
                                <<"clang", "version", "11.0.1">> >>
      [] b = "gccclang"   -> << <<"gcc", "(GCC)", "9.2.0">>,
                                <<"clang", "version", "11.0.1">> >>
      [] b = "gccapple"   -> << <<"gcc", "(GCC)", "4.8.5">>,
                                <<"Apple", "clang", "version", "14.0.0">> >>
      [] b = "year"       -> << <<"gcc", "(GCC)", "2019">> >>
      [] OTHER         -> << <<"usage:", "cc", "[options]">> >>

\* util.run_command(cc, '--version', quiet=True).output.split('\n')
run_version(cc) ==
    IF \E exe \in DOMAIN fs : BinDir \o exe = cc
    THEN BannerText(fs[CHOOSE exe \in DOMAIN fs : BinDir \o exe = cc])
    ELSE <<>>

-----------------------------------------------------------------------------
(* _compiler_version *)

\* (\d+) at the start of a token, and the 4\.\d+ and (\d+)\. forms of it
Digits(tok) ==
    CASE tok = "11.0.1" -> [major |-> "11", four |-> None, dotted |-> TRUE]
      [] tok = "14.0.0" -> [major |-> "14", four |-> None, dotted |-> TRUE]
      [] tok = "9.2.0"  -> [major |-> "9", four |-> None, dotted |-> TRUE]
      [] tok = "9.0.0"  -> [major |-> "9", four |-> None, dotted |-> TRUE]
      [] tok = "4.8.5"  -> [major |-> "4", four |-> "4.8", dotted |-> TRUE]
      [] tok = "2019"   -> [major |-> "2019", four |-> None, dotted |-> FALSE]
      [] OTHER          -> [major |-> None, four |-> None, dotted |-> FALSE]

\* the greedy .* / .+ of the patterns: the last position that matches
Last(S) == CHOOSE i \in S : \A j \in S : j <= i

\* re.match('Apple (LLVM|clang) version (\d+)', text)
MatchApple(text) ==
    IF /\ Len(text) >= 4
       /\ text[1] = "Apple"
       /\ text[2] \in {"LLVM", "clang"}
       /\ text[3] = "version"
    THEN Digits(text[4]).major
    ELSE None

\* re.match('.*(LLVM|clang) version (\d+)', text)
MatchClang(text) ==
    LET at == {i \in 1..Len(text) :
                  /\ i + 2 <= Len(text)
                  /\ text[i] \in {"LLVM", "clang"}
                  /\ text[i + 1] = "version"
                  /\ Digits(text[i + 2]).major # None}
    IN  IF at # {} THEN Digits(text[Last(at) + 2]).major ELSE None

\* re.match('gcc .+ (4\.\d+)', text)
MatchGcc4(text) ==
    LET at == {i \in 3..Len(text) : text[1] = "gcc" /\ Digits(text[i]).four # None}
    IN  IF at # {} THEN Digits(text[Last(at)]).four ELSE None

\* re.match('gcc .+ (\d+)\.', text)
MatchGcc(text) ==
    LET at == {i \in 3..Len(text) : text[1] = "gcc" /\ Digits(text[i]).dotted}
    IN  IF at # {} THEN Digits(text[Last(at)]).major ELSE None

\* if m: return family, m.group(...)
Matched(family, group) == IF group # None THEN <<family, group>> ELSE <<None, None>>

\* the first pair of a sequence that is not <<None, None>>: the first return
\* reached
FirstReturn(pairs) ==
    LET hits == {i \in DOMAIN pairs : pairs[i] # <<None, None>>}
    IN  IF hits # {}
        THEN pairs[CHOOSE i \in hits : \A j \in hits : i <= j]
        ELSE <<None, None>>

ClassifyLineGenericFirst(text) ==
    FirstReturn(<<Matched("clang", MatchClang(text)),
                  Matched("appleclang", MatchApple(text)),
                  Matched("gcc", MatchGcc4(text)),
                  Matched("gcc", MatchGcc(text))>>)

\* the body of the loop over the lines: the pair returned for one line, or
\* <<None, None>> when no pattern matches it
ClassifyLine(text) ==
    FirstReturn(<<Matched("appleclang", MatchApple(text)),
                  Matched("clang", MatchClang(text)),
                  Matched("gcc", MatchGcc4(text)),
                  Matched("gcc", MatchGcc(text))>>)

\* for text in lines: ...
ClassifyLines(lines) == FirstReturn([i \in DOMAIN lines |-> ClassifyLine(lines[i])])

_compiler_version(cc) ==
    IF current_os # "windows"
    THEN ClassifyLines(run_version(cc))
    ELSE <<None, None>>

-----------------------------------------------------------------------------
(* _find_compiler_tool *)

\* pattern.format(name=name, version=version) for the two patterns
Format(k, name, version) ==
    IF k = 1 THEN name \o "-" \o version ELSE name \o "-" \o version \o ".0"

\* the versioned names probed, in the order of the two nested loops
VersionedNames(name, versions) ==
    [n \in 1..(2 * Len(versions)) |->
        LET version == versions[(n + 1) \div 2]
        IN  [exe |-> Format(2 - (n % 2), name, version), version |-> version]]

\* the loop over versions and patterns: the first probed name that is found
FirstFoundOf(probe) ==
    LET found == {n \in DOMAIN probe : Truthy(where(probe[n].exe))}
    IN  IF found # {}
        THEN <<where(probe[CHOOSE m \in found : \A k \in found : m <= k].exe),
               probe[CHOOSE m \in found : \A k \in found : m <= k].version>>
        ELSE <<None, None>>

LastFoundOf(probe) ==
    LET found == {n \in DOMAIN probe : Truthy(where(probe[n].exe))}
    IN  IF found # {}
        THEN <<where(probe[CHOOSE m \in found : \A k \in found : k <= m].exe),
               probe[CHOOSE m \in found : \A k \in found : k <= m].version>>
        ELSE <<None, None>>

ScanVersionedWrongOrder(name, versions) == LastFoundOf(VersionedNames(name, versions))

ScanVersioned(name, versions) == FirstFoundOf(VersionedNames(name, versions))

InList(x, s) == \E i \in 1..Len(s) : s[i] = x

DefaultUnchecked(path, version, versions, scanned) ==
    IF Truthy(path) THEN <<path, version>> ELSE scanned

\* path, version: the unversioned tool and what its banner says; scanned:
\* what the loop over the versioned names gives
DefaultOrScanned(path, version, versions, scanned) ==
    IF Truthy(path) /\ InList(version, versions)
    THEN <<path, version>>
    ELSE scanned

_find_compiler_toolNoVersionCheck(name, versions) ==
    DefaultUnchecked(where(name), _compiler_version(where(name))[2], versions,
                     ScanVersioned(name, versions))

_find_compiler_tool(name, versions) ==
    DefaultOrScanned(where(name), _compiler_version(where(name))[2], versions,
                     ScanVersioned(name, versions))

-----------------------------------------------------------------------------
(* _clang_versions, _appleclang_versions, _gcc_versions, _msvc_versions *)

\* a < b for Python strings
StrLess(a, b) ==
    LET ca == Chars(a)
        cb == Chars(b)
    IN  \E i \in 1..Len(cb) :
            /\ \A j \in 1..(i - 1) : j <= Len(ca) /\ ca[j] = cb[j]
            /\ i > Len(ca) \/ ca[i] < cb[i]

IntLess(a, b) == IntOf(a) < IntOf(b)

\* versions.sort(); versions.reverse(): the strings of S, highest first
RECURSIVE SortReverse(_)
SortReverse(S) ==
    IF S = {}
    THEN <<>>
    ELSE LET top == CHOOSE x \in S : \A y \in S : ~StrLess(x, y)
         IN  <<top>> \o SortReverse(S \ {top})

\* versions.sort(key=lambda x: int(x), reverse=True)
RECURSIVE SortByIntReverse(_)
SortByIntReverse(S) ==
    IF S = {}
    THEN <<>>
    ELSE LET top == CHOOSE x \in S : \A y \in S : ~IntLess(x, y)
         IN  <<top>> \o SortByIntReverse(S \ {top})

_clang_versions == SortReverse(COMPILERS.clang \ {"default"})

_appleclang_versions == SortReverse(COMPILERS.appleclang \ {"default"})

_gcc_versions == SortReverse(COMPILERS.gcc \ {"default"})

Reversed(s) == [i \in 1..Len(s) |-> s[Len(s) + 1 - i]]

_msvc_versionsLowToHigh == Reversed(SortByIntReverse(COMPILERS.msvc \ {"default"}))

_msvc_versions == SortByIntReverse(COMPILERS.msvc \ {"default"})

-----------------------------------------------------------------------------
(* _is_cross_compile *)

_is_cross_compileRawArch(target_os, target_arch) ==
    IF current_os = "macos" /\ target_os \in {"macos", "ios"} THEN FALSE
    ELSE IF current_os = "windows" /\ target_os = "windows" THEN FALSE
    ELSE IF target_os # current_os \/ target_arch # current_arch THEN TRUE
    ELSE FALSE

_is_cross_compile(target_os, target_arch) ==
    IF current_os = "macos" /\ target_os \in {"macos", "ios"} THEN FALSE
    ELSE IF current_os = "windows" /\ target_os = "windows" THEN FALSE
    ELSE IF target_os # current_os \/ normalize_arch(target_arch) # current_arch THEN TRUE
    ELSE FALSE

-----------------------------------------------------------------------------
(* Toolchain.find_gcc_tool, find_llvm_tool, find_apple_llvm_compiler *)

find_gcc_tool(name, version) ==
    _find_compiler_tool(name, IF Truthy(version) THEN <<version>> ELSE _gcc_versions)

find_llvm_tool(name, version) ==
    _find_compiler_tool(name, IF Truthy(version) THEN <<version>> ELSE _clang_versions)

find_apple_llvm_compiler(name, version) ==
    _find_compiler_tool(name, IF Truthy(version) THEN <<version>> ELSE _appleclang_versions)

-----------------------------------------------------------------------------
(* Toolchain.find_msvc *)

\* where Visual Studio version v is installed
VsDir == "C:/VS/"

\* vswhere -legacy -version <version> -property installationPath -sort:
\* the installations at least as new as version, newest first
Paths(order) == [i \in 1..Len(order) |-> VsDir \o order[i]]

vswhere_output(version) ==
    Paths(SortByIntReverse({v \in vsInstalled : IntOf(v) >= IntOf(version)}))

\* if installations: return installations[0], version
FirstInstallation(installations, version, vsw) ==
    [ret |-> IF installations # <<>>
             THEN <<installations[1], version>>
             ELSE <<None, None>>,
     vswhere |-> vsw,
     events |-> <<"vswhere">>]

\* what the call made after a successful install returns
AfterInstall(again) == [again EXCEPT !.events = <<"choco", "installed">> \o @]

\* the inner function.  vsw: whether vswhere is on the search path now;
\* choco: whether the package manager's install would succeed (returncode 0),
\* which puts vswhere on the search path.  The result carries the search
\* path's new state and the commands run.
RECURSIVE _find_msvc(_, _, _, _)
_find_msvc(version, install_vswhere, vsw, choco) ==
    IF ~vsw /\ install_vswhere
    THEN IF choco
         THEN AfterInstall(_find_msvc(version, FALSE, TRUE, choco))
         ELSE [ret |-> <<None, None>>, vswhere |-> vsw, events |-> <<"choco">>]
    ELSE FirstInstallation(vswhere_output(version), version, vsw)

\* what the iterations after one give, with one's commands before theirs
Then(one, rest) == [rest EXCEPT !.events = one.events \o @]

\* the loop over versions, from the i-th on; oracle[i] is the outcome the
\* package manager would have in the i-th iteration
RECURSIVE find_msvc_loop(_, _, _, _)
RECURSIVE find_msvc_step(_, _, _, _)
find_msvc_step(one, versions, i, oracle) ==
    IF Truthy(one.ret[1])
    THEN one
    ELSE Then(one, find_msvc_loop(versions, i + 1, one.vswhere, oracle))

find_msvc_loop(versions, i, vsw, oracle) ==
    IF i > Len(versions)
    THEN [ret |-> <<None, None>>, vswhere |-> vsw, events |-> <<>>]
    ELSE find_msvc_step(_find_msvc(versions[i], TRUE, vsw, oracle[i]),
                        versions, i, oracle)

find_msvc(version, vsw, oracle) ==
    find_msvc_loop(IF Truthy(version) THEN <<version>> ELSE _msvc_versions,
                   1, vsw, oracle)

\* the outcomes the package manager can have over one call that starts with
\* vsw: it is run only while vswhere is missing, and can succeed only where
\* it exists, on a Windows host
Oracles(vsw) ==
    IF hostOS = "windows" /\ ~vsw
    THEN [1..Len(_msvc_versions) -> BOOLEAN]
    ELSE {[i \in 1..Len(_msvc_versions) |-> FALSE]}

\* those of them in which it works throughout the call or not at all
SteadyOracles(vsw) == {o \in Oracles(vsw) : \A i, j \in DOMAIN o : o[i] = o[j]}

-----------------------------------------------------------------------------
(* Toolchain.find_compiler, Toolchain.find_compiler_tool *)

\* a result of a locator that runs no command
Pure(pair, vsw) == [ret |-> pair, vswhere |-> vsw, events |-> <<>>]

find_compiler(compiler, version, vsw, oracle) ==
    IF compiler = "clang"
    THEN IF current_os = "macos"
         THEN Pure(find_apple_llvm_compiler(compiler, version), vsw)
         ELSE Pure(find_llvm_tool(compiler, version), vsw)
    ELSE IF compiler = "appleclang"
    THEN Pure(find_apple_llvm_compiler("clang", version), vsw)
    ELSE IF compiler = "gcc"
    THEN Pure(find_gcc_tool(compiler, version), vsw)
    ELSE IF compiler = "msvc"
    THEN find_msvc(version, vsw, oracle)
    ELSE Pure(<<None, None>>, vsw)

find_compiler_tool(compiler, tool, version) ==
    IF compiler = "clang" THEN find_llvm_tool(tool, version)
    ELSE IF compiler = "appleclang" THEN find_apple_llvm_compiler(tool, version)
    ELSE IF compiler = "gcc" THEN find_gcc_tool(tool, version)
    ELSE <<None, None>>

-----------------------------------------------------------------------------
(* Toolchain.all_compilers, Toolchain.is_compiler_installed *)

ReportedUnchecked(family, version, pair) == << <<family, version>> >>

\* if path: compilers.append((family, version))
Reported(family, version, pair) ==
    IF Truthy(pair[1]) THEN << <<family, version>> >> ELSE <<>>

\* for version in _gcc_versions(): ..., from the i-th version on
RECURSIVE gcc_compilers(_)
gcc_compilers(i) ==
    IF i > Len(_gcc_versions)
    THEN <<>>
    ELSE Reported("gcc", _gcc_versions[i], find_gcc_tool("gcc", _gcc_versions[i]))
         \o gcc_compilers(i + 1)

\* for version in versions: ..., from the i-th version on
RECURSIVE clang_compilers(_, _, _)
clang_compilers(family, versions, i) ==
    IF i > Len(versions)
    THEN <<>>
    ELSE Reported(family, versions[i], find_llvm_tool("clang", versions[i]))
         \o clang_compilers(family, versions, i + 1)

\* the package manager's outcomes as the i-th call of a sequence sees them
OracleAt(oracle, i) == [k \in DOMAIN oracle |-> oracle[i]]

\* one: what find_msvc gave for the i-th version; rest: the later iterations
Prepended(found, one, rest) ==
    [ret |-> found \o rest.ret, vswhere |-> rest.vswhere,
     events |-> one.events \o rest.events]

\* for version in _msvc_versions(): ..., from the i-th version on
RECURSIVE msvc_compilers(_, _, _)
RECURSIVE msvc_compilers_step(_, _, _)
msvc_compilers_step(one, i, oracle) ==
    Prepended(Reported("msvc", _msvc_versions[i], one.ret), one,
              msvc_compilers(i + 1, one.vswhere, oracle))

msvc_compilers(i, vsw, oracle) ==
    IF i > Len(_msvc_versions)
    THEN Pure(<<>>, vsw)
    ELSE msvc_compilers_step(find_msvc(_msvc_versions[i], vsw, OracleAt(oracle, i)),
                             i, oracle)

\* the list so far, and what the loop over the MSVC versions adds
Listed(front, m) == [m EXCEPT !.ret = front \o @]

all_compilers(vsw, oracle) ==
    Listed(gcc_compilers(1)
           \o (IF current_os = "macos"
               THEN clang_compilers("appleclang", _appleclang_versions, 1)
               ELSE clang_compilers("clang", _clang_versions, 1)),
           IF current_os = "windows"
           THEN msvc_compilers(1, vsw, oracle)
           ELSE Pure(<<>>, vsw))

\* return compiler_path != None
Installed(f) == [f EXCEPT !.ret = (@[1] # None)]

is_compiler_installed(compiler, version, vsw, oracle) ==
    Installed(find_compiler(compiler, version, vsw, oracle))

-----------------------------------------------------------------------------
(* Toolchain.default_compiler *)

\* if cc and ccver: return cc, ccver
FullyClassified(pair) ==
    IF Truthy(pair[1]) /\ Truthy(pair[2]) THEN pair ELSE <<None, None>>

\* for env_cc in (util.where(os.environ.get('CC', None)), util.where('cc')):
\* the pair of the first of the two that is found and fully classified
ClassifiedCC ==
    FirstReturn(<<FullyClassified(_compiler_version(where(envCC))),
                  FullyClassified(_compiler_version(where("cc")))>>)

\* compiler = 'msvc'; version = Toolchain.find_msvc()[1]
MsvcDefault(m) == [m EXCEPT !.ret = <<"msvc", m.ret[2]>>]

HostDefaultGccFirst(cc, clang, gcc, vsw) ==
    IF cc # <<None, None>> THEN Pure(cc, vsw)
    ELSE IF Truthy(gcc[1]) THEN Pure(<<"gcc", gcc[2]>>, vsw)
    ELSE IF Truthy(clang[1]) THEN Pure(<<"clang", clang[2]>>, vsw)
    ELSE Pure(<<None, None>>, vsw)

\* cc: the classified CC or cc; clang, gcc: what the two discoveries found
HostDefault(cc, clang, gcc, vsw) ==
    IF cc # <<None, None>> THEN Pure(cc, vsw)
    ELSE IF Truthy(clang[1]) THEN Pure(<<"clang", clang[2]>>, vsw)
    ELSE IF Truthy(gcc[1]) THEN Pure(<<"gcc", gcc[2]>>, vsw)
    ELSE Pure(<<None, None>>, vsw)

\* the inner function _find_compiler
_find_compiler(vsw, oracle) ==
    IF current_os = "windows"
    THEN MsvcDefault(find_msvc(None, vsw, oracle))
    ELSE HostDefault(ClassifiedCC, find_llvm_tool("clang", None),
                     find_gcc_tool("gcc", None), vsw)

\* a result of default_compiler that leaves the cache dc, dv as it is
Cached(pair, dc, dv, vsw) ==
    [ret |-> pair, dc |-> dc, dv |-> dv, vswhere |-> vsw, events |-> <<>>, probed |-> 0]

\* Toolchain._default_compiler, Toolchain._default_version = _find_compiler()
\* and the return of the two
Memoized(f) ==
    [ret |-> f.ret, dc |-> f.ret[1], dv |-> f.ret[2], vswhere |-> f.vswhere,
     events |-> <<"_find_compiler">> \o f.events, probed |-> 1]

default_compilerMemoizesFallback(target, arch, dc, dv, vsw, oracle) ==
    IF Truthy(dc) /\ Truthy(dv)
    THEN Cached(<<dc, dv>>, dc, dv, vsw)
    ELSE IF Truthy(target) /\ Truthy(arch) /\ _is_cross_compile(target, arch)
    THEN Cached(<<"gcc", "4.8">>, "gcc", "4.8", vsw)
    ELSE Memoized(_find_compiler(vsw, oracle))

\* dc, dv: Toolchain._default_compiler, Toolchain._default_version at the call
default_compiler(target, arch, dc, dv, vsw, oracle) ==
    IF Truthy(dc) /\ Truthy(dv)
    THEN Cached(<<dc, dv>>, dc, dv, vsw)
    ELSE IF Truthy(target) /\ Truthy(arch) /\ _is_cross_compile(target, arch)
    THEN Cached(<<"gcc", "4.8">>, dc, dv, vsw)
    ELSE Memoized(_find_compiler(vsw, oracle))

-----------------------------------------------------------------------------
(* Toolchain.compiler_path, Toolchain.cxx_compiler_path *)

\* what a method leaves behind: how it ended ("ok" or the exception raised),
\* its value, the cache, the search path, the commands run, the probes made
Outcome(status, value, dc, dv, vsw, ev, probed) ==
    [status |-> status, ret |-> value, dc |-> dc, dv |-> dv, vswhere |-> vsw,
     events |-> ev, probed |-> probed]

\* return Toolchain.default_compiler()[0]
FamilyOf(d) ==
    Outcome("ok", d.ret[1], d.dc, d.dv, d.vswhere,
            <<"default_compiler">> \o d.events, d.probed)

\* return Toolchain.find_compiler(...)[0]
PathOf(f, dc, dv) ==
    Outcome("ok", f.ret[1], dc, dv, f.vswhere, <<"find_compiler">> \o f.events, 0)

\* self.compiler_version if self.compiler_version != 'default' else None
VersionOrNone(self) ==
    IF self.compiler_version # "default" THEN self.compiler_version ELSE None

compiler_pathNoAssert(self, dc, dv, vsw, oracle) ==
    IF self.compiler = "default"
    THEN FamilyOf(default_compiler(None, None, dc, dv, vsw, oracle))
    ELSE PathOf(find_compiler(self.compiler, VersionOrNone(self), vsw, oracle), dc, dv)

compiler_path(self, dc, dv, vsw, oracle) ==
    IF self.cross_compile
    THEN Outcome("AssertionError", None, dc, dv, vsw, <<>>, 0)
    ELSE IF self.compiler = "default"
    THEN FamilyOf(default_compiler(None, None, dc, dv, vsw, oracle))
    ELSE PathOf(find_compiler(self.compiler, VersionOrNone(self), vsw, oracle), dc, dv)

\* the value of a companion-tool lookup made after the resolution d
ToolOf(pair, d) ==
    Outcome("ok", pair[1], d.dc, d.dv, d.vswhere,
            d.events \o <<"find_compiler_tool">>, d.probed)

\* return self.compiler_path(), made after the resolution d
PathAfter(d, p) == [p EXCEPT !.events = d.events \o @, !.probed = d.probed + @]

\* compiler = Toolchain.default_compiler()[0]
Resolution(r) == [r EXCEPT !.events = <<"default_compiler">> \o @]

\* the branches on compiler; d: the resolution that gave it
CxxOf(self, d, oracle2) ==
    IF d.ret[1] \in {"clang", "appleclang"}
    THEN ToolOf(find_compiler_tool(d.ret[1], "clang++", self.compiler_version), d)
    ELSE IF d.ret[1] = "gcc"
    THEN ToolOf(find_compiler_tool(d.ret[1], "g++", self.compiler_version), d)
    ELSE PathAfter(d, compiler_path(self, d.dc, d.dv, d.vswhere, oracle2))

\* oracle, oracle2: the package manager's outcomes in the first and in the
\* second MSVC discovery the call can make
cxx_compiler_path(self, dc, dv, vsw, oracle, oracle2) ==
    IF self.cross_compile
    THEN Outcome("AssertionError", None, dc, dv, vsw, <<>>, 0)
    ELSE IF self.compiler = "default"
    THEN CxxOf(self, Resolution(default_compiler(None, None, dc, dv, vsw, oracle)),
               oracle2)
    ELSE CxxOf(self, Cached(<<self.compiler, None>>, dc, dv, vsw), oracle2)

-----------------------------------------------------------------------------
(* Toolchain.__init__ *)

\* an attribute that was never set: reading it raises AttributeError
Unset == "<unset>"

Slots == {"host", "target", "arch", "compiler", "compiler_version"}

\* normalize_target('{}-{}'.format(target, arch))
normalize_target(target, arch) == target \o "-" \o normalize_arch(arch)

\* if 'default' in kwargs or len(kwargs) == 0
DefaultsApplied(kwargs) ==
    IF "default" \in DOMAIN kwargs \/ DOMAIN kwargs = {}
    THEN [slot \in Slots |-> "default"]
    ELSE [slot \in Slots |-> Unset]

\* if 'spec' in kwargs
SpecCopied(self, kwargs) ==
    IF "spec" \in DOMAIN kwargs
    THEN [host |-> kwargs.spec.host,
          compiler |-> kwargs.spec.compiler,
          compiler_version |-> kwargs.spec.compiler_version,
          target |-> kwargs.spec.target,
          arch |-> normalize_arch(kwargs.spec.arch)]
    ELSE self

\* for slot in (...): if slot in kwargs: setattr(self, slot, kwargs[slot])
FieldsPulled(self, kwargs) ==
    [slot \in Slots |-> IF slot \in DOMAIN kwargs THEN kwargs[slot] ELSE self[slot]]

\* self.name = '-'.join([...]): the construction's last statement
Named(self, cross_compile, dc, dv, vsw, ev, probed) ==
    IF Unset \in {self.host, self.compiler, self.compiler_version}
    THEN Outcome("AttributeError", None, dc, dv, vsw, ev, probed)
    ELSE Outcome("ok",
                 [host |-> self.host,
                  target |-> self.target,
                  arch |-> self.arch,
                  compiler |-> self.compiler,
                  compiler_version |-> self.compiler_version,
                  cross_compile |-> cross_compile,
                  platform |-> normalize_target(self.target, self.arch),
                  name |-> self.host \o "-" \o self.compiler \o "-"
                           \o self.compiler_version \o "-" \o self.target
                           \o "-" \o self.arch],
                 dc, dv, vsw, ev, probed)

\* c, v = Toolchain.default_compiler(); if c and v: ...
DefaultResolved(self, d) ==
    IF Truthy(d.ret[1]) /\ Truthy(d.ret[2])
    THEN Named([self EXCEPT !.compiler = d.ret[1], !.compiler_version = d.ret[2]],
               FALSE, d.dc, d.dv, d.vswhere, <<"default_compiler">> \o d.events, d.probed)
    ELSE Named(self, FALSE, d.dc, d.dv, d.vswhere,
               <<"default_compiler">> \o d.events, d.probed)

VersionOrAbsent(version) == version

\* if not self.compiler_version: self.compiler_version = 'default'
VersionOr(version) == IF Truthy(version) THEN version ELSE "default"

\* self.compiler_version = _compiler_version(self.compiler_path())[1]
VersionResolved(self, p) ==
    Named([self EXCEPT !.compiler_version = VersionOr(_compiler_version(p.ret)[2])],
          FALSE, p.dc, p.dv, p.vswhere, p.events, p.probed)

\* from "detect cross-compile" on; self has its target and arch
CompilerResolvedKeepsRequest(self, dc, dv, vsw, oracle) ==
    IF _is_cross_compile(self.target, self.arch) /\ self.compiler \in {Unset, "default"}
    THEN Named([self EXCEPT !.compiler = "gcc", !.compiler_version = "4.8"],
               TRUE, dc, dv, vsw, <<>>, 0)
    ELSE Named(self, _is_cross_compile(self.target, self.arch), dc, dv, vsw, <<>>, 0)

CompilerResolved(self, dc, dv, vsw, oracle) ==
    IF _is_cross_compile(self.target, self.arch)
    THEN Named([self EXCEPT !.compiler = "gcc", !.compiler_version = "4.8"],
               TRUE, dc, dv, vsw, <<>>, 0)
    ELSE IF self.compiler = Unset
    THEN Outcome("AttributeError", None, dc, dv, vsw, <<>>, 0)
    ELSE IF self.compiler = "default"
    THEN DefaultResolved(self, default_compiler(None, None, dc, dv, vsw, oracle))
    ELSE IF self.compiler_version = Unset
    THEN Outcome("AttributeError", None, dc, dv, vsw, <<>>, 0)
    ELSE IF self.compiler_version = "default"
    THEN VersionResolved(self, compiler_path(("cross_compile" :> FALSE) @@ self,
                                             dc, dv, vsw, oracle))
    ELSE Named(self, FALSE, dc, dv, vsw, <<>>, 0)

\* if self.target == 'default': ...; if self.arch == 'default': ...
TargetDefaulted(self) ==
    [self EXCEPT !.target = IF @ = "default" THEN current_os ELSE @,
                 !.arch = IF @ = "default" THEN current_arch ELSE @]

\* self: the attributes after the defaults, the spec and the fields
Classified(self, dc, dv, vsw, oracle) ==
    IF self.target = Unset \/ self.arch = Unset
    THEN Outcome("AttributeError", None, dc, dv, vsw, <<>>, 0)
    ELSE CompilerResolved(TargetDefaulted(self), dc, dv, vsw, oracle)

Toolchain(kwargs, dc, dv, vsw, oracle) ==
    Classified(FieldsPulled(SpecCopied(DefaultsApplied(kwargs), kwargs), kwargs),
               dc, dv, vsw, oracle)

-----------------------------------------------------------------------------
(* The environments and the inputs the model draws from *)

HostOSes == {"linux", "macos", "windows"}
HostArchs == {"x64", "arm64"}
TargetOSes == {"linux", "macos", "windows", "ios"}
TargetArchs == {"x64", "arm64", "aarch64", "x86_64"}

\* the search paths holding at most n of the executables exes, each printing
\* one of the banners
SearchPaths(exes, banners, n) ==
    UNION {[S -> banners] : S \in {T \in SUBSET exes : Cardinality(T) <= n}}

\* a keyword argument that is passed (k=v) or left out
Absent == "<absent>"
Kw(k, v) == IF v = Absent THEN <<>> ELSE k :> v

\* no call made yet
Nothing == "<nothing>"

\* no object constructed yet
NoToolchain == [name |-> Nothing]

\* the threads of the process that call default_compiler()
Threads == {"A", "B"}

\* a thread that has not called it yet
Idle == [pc |-> "idle", c |-> None, v |-> None, ret |-> <<>>]

\* the program state of a fresh process
Fresh ==
    /\ threads = [t \in Threads |-> Idle]
    /\ _default_compiler = None
    /\ _default_version = None
    /\ desc = NoToolchain
    /\ built = <<FALSE, FALSE>>
    /\ op = Nothing
    /\ args = <<>>
    /\ ret = Nothing
    /\ events = <<>>
    /\ probes = 0
    /\ first = <<>>

\* the effect of a call on the class attributes and on the search path
Effects(o) ==
    /\ probes + o.probed <= MaxProbes
    /\ probes' = probes + o.probed
    /\ _default_compiler' = o.dc
    /\ _default_version' = o.dv
    /\ vswhere' = o.vswhere
    /\ events' = o.events
    /\ UNCHANGED <<envVars, threads>>

-----------------------------------------------------------------------------
(* The operations *)

\* a construction called with kwargs, recorded as a, ends as o; stamp: for
\* the spec= it was given, whether vswhere was there when it was built
Constructed(a, o, stamp) ==
    /\ Effects(o)
    /\ op' = "Toolchain"
    /\ args' = a
    /\ ret' = o.status
    /\ desc' = IF o.status = "ok" THEN o.ret ELSE NoToolchain
    /\ built' = IF o.status = "ok" THEN <<o.vswhere, stamp>> ELSE <<FALSE, FALSE>>
    /\ UNCHANGED first

\* a method of desc ends as o
Queried(name, o) ==
    /\ Effects(o)
    /\ op' = name
    /\ args' = <<>>
    /\ ret' = IF o.status = "ok" THEN o.ret ELSE o.status
    /\ UNCHANGED <<desc, built, first>>

\* default_compiler(hints) ends as o
Resolved(hints, o) ==
    /\ Effects(o)
    /\ op' = "default_compiler"
    /\ args' = hints
    /\ ret' = o.ret
    /\ first' = IF first = <<>> /\ hints = <<None, None>> THEN o.ret ELSE first
    /\ UNCHANGED <<desc, built>>

\* find_msvc(version) ends as o
Discovered(version, o) ==
    /\ vswhere' = o.vswhere
    /\ events' = o.events
    /\ op' = "find_msvc"
    /\ args' = <<version>>
    /\ ret' = o.ret
    /\ UNCHANGED <<envVars, threads, _default_compiler, _default_version, desc, built,
                   probes, first>>

\* the keyword arguments of a construction
Kwargs(dflt, host, target, arch, compiler, compiler_version) ==
    Kw("default", dflt) @@ Kw("host", host) @@ Kw("target", target)
    @@ Kw("arch", arch) @@ Kw("compiler", compiler)
    @@ Kw("compiler_version", compiler_version)

\* Toolchain(**kwargs) without spec=
ConstructWith(kwargs, oracle) ==
    Constructed(kwargs,
                Toolchain(kwargs, _default_compiler, _default_version, vswhere, oracle),
                FALSE)

Construct ==
    \E dflt \in {Absent, "True"}, host \in {Absent, "ubuntu"},
       target \in {Absent, "ios"}, arch \in {Absent, "aarch64"},
       compiler \in {Absent, "clang"}, compiler_version \in {Absent, "11"},
       oracle \in SteadyOracles(vswhere) :
        ConstructWith(Kwargs(dflt, host, target, arch, compiler, compiler_version),
                      oracle)

\* Toolchain(spec=desc, **kwargs); args names the basis by its canonical name
ConstructFromSpecWith(fields, oracle) ==
    Constructed(("spec" :> desc.name) @@ fields,
                Toolchain(("spec" :> desc) @@ fields,
                          _default_compiler, _default_version, vswhere, oracle),
                built[1])

ConstructFromSpec ==
    /\ desc # NoToolchain
    /\ \E target \in {Absent, "linux"}, compiler \in {Absent, "gcc"},
          oracle \in SteadyOracles(vswhere) :
        ConstructFromSpecWith(Kw("target", target) @@ Kw("compiler", compiler), oracle)

\* desc.compiler_path()
CompilerPath ==
    /\ desc # NoToolchain
    /\ \E oracle \in SteadyOracles(vswhere) :
        Queried("compiler_path",
                compiler_path(desc, _default_compiler, _default_version, vswhere, oracle))

\* desc.cxx_compiler_path()
CxxCompilerPath ==
    /\ desc # NoToolchain
    /\ \E oracle \in SteadyOracles(vswhere) :
        Queried("cxx_compiler_path",
                cxx_compiler_path(desc, _default_compiler, _default_version, vswhere,
                                  oracle, oracle))

\* Toolchain.default_compiler(target, arch)
DefaultCompiler ==
    \E hints \in {<<None, None>>, <<"linux", None>>, <<"linux", "x64">>,
                  <<"windows", "aarch64">>},
       oracle \in Oracles(vswhere) :
        Resolved(hints,
                 default_compiler(hints[1], hints[2], _default_compiler,
                                  _default_version, vswhere, oracle))

\* Toolchain.find_msvc(version)
FindMsvc ==
    \E version \in {None, "15", "16"}, oracle \in Oracles(vswhere) :
        Discovered(version, find_msvc(version, vswhere, oracle))

\* _find_compiler_tool(name, versions)
FindCompilerTool ==
    \E name \in {"clang", "gcc"},
       versions \in {<<"11">>, <<"12", "11">>, <<"9", "11">>, _gcc_versions} :
        /\ op' = "_find_compiler_tool"
        /\ args' = <<name, versions>>
        /\ ret' = _find_compiler_tool(name, versions)
        /\ events' = <<>>
        /\ UNCHANGED <<envVars, threads, vswhere, _default_compiler, _default_version, desc,
                       built, probes, first>>

\* a static method that runs no command returned pair
Located(name, a, pair) ==
    /\ op' = name
    /\ args' = a
    /\ ret' = pair
    /\ events' = <<>>
    /\ UNCHANGED <<envVars, threads, vswhere, _default_compiler, _default_version, desc,
                   built, probes, first>>

\* a static method that may run commands ends as o
Called(name, a, o) ==
    /\ vswhere' = o.vswhere
    /\ events' = o.events
    /\ op' = name
    /\ args' = a
    /\ ret' = o.ret
    /\ UNCHANGED <<envVars, threads, _default_compiler, _default_version, desc, built,
                   probes, first>>

\* the tool names, versions and families asked for
ToolNames == {"gcc", "clang", "clang++"}
Requested == {None, "9", "11"}
Families == {"gcc", "clang", "appleclang", "msvc", "icc"}

\* Toolchain.find_gcc_tool(name, version)
FindGccTool ==
    \E name \in ToolNames, version \in Requested :
        Located("find_gcc_tool", <<name, version>>, find_gcc_tool(name, version))

\* Toolchain.find_llvm_tool(name, version)
FindLlvmTool ==
    \E name \in ToolNames, version \in Requested :
        Located("find_llvm_tool", <<name, version>>, find_llvm_tool(name, version))

\* Toolchain.find_apple_llvm_compiler(name, version)
FindAppleLlvmCompiler ==
    \E name \in ToolNames, version \in Requested :
        Located("find_apple_llvm_compiler", <<name, version>>,
                find_apple_llvm_compiler(name, version))

\* Toolchain.find_compiler(compiler, version)
FindCompiler ==
    \E compiler \in Families, version \in Requested \cup {"16"},
       oracle \in Oracles(vswhere) :
        Called("find_compiler", <<compiler, version>>,
               find_compiler(compiler, version, vswhere, oracle))

\* Toolchain.find_compiler_tool(compiler, tool, version)
FindTool ==
    \E compiler \in Families, tool \in ToolNames, version \in Requested :
        Located("find_compiler_tool", <<compiler, tool, version>>,
                find_compiler_tool(compiler, tool, version))

\* Toolchain.all_compilers()
AllCompilers ==
    \E oracle \in Oracles(vswhere) :
        Called("all_compilers", <<>>, all_compilers(vswhere, oracle))

\* Toolchain.is_compiler_installed(compiler, version)
IsCompilerInstalled ==
    \E compiler \in Families, version \in {"9", "11", "16"},
       oracle \in Oracles(vswhere) :
        Called("is_compiler_installed", <<compiler, version>>,
               is_compiler_installed(compiler, version, vswhere, oracle))

\* thread t moves to pc with the locals c, v and the return value r
Moved(t, pc, c, v, r) ==
    threads' = [threads EXCEPT ![t] = [pc |-> pc, c |-> c, v |-> v, ret |-> r]]

\* the package manager fails all through a call: the search path stays as it is
ChocoFails == [i \in 1..Len(_msvc_versions) |-> FALSE]

\* thread t enters default_compiler() and evaluates Toolchain._default_compiler,
\* the left operand of the cache check
ThreadCheckCompiler(t) ==
    /\ threads[t].pc = "idle"
    /\ Moved(t, IF Truthy(_default_compiler) THEN "check_version" ELSE "probe",
             None, None, <<>>)
    /\ UNCHANGED <<envVars, vswhere, _default_compiler, _default_version, desc,
                   built, op, args, ret, events, probes, first>>

\* ... and Toolchain._default_version, the right operand
ThreadCheckVersion(t) ==
    /\ threads[t].pc = "check_version"
    /\ Moved(t, IF Truthy(_default_version) THEN "return_compiler" ELSE "probe",
             None, None, <<>>)
    /\ UNCHANGED <<envVars, vswhere, _default_compiler, _default_version, desc,
                   built, op, args, ret, events, probes, first>>

\* the pair _find_compiler() gave thread t
Probed(t, f) ==
    /\ vswhere' = f.vswhere
    /\ Moved(t, "store_compiler", f.ret[1], f.ret[2], <<>>)

\* the right-hand side _find_compiler() of the assignment
ThreadProbe(t) ==
    /\ threads[t].pc = "probe"
    /\ Probed(t, _find_compiler(vswhere, ChocoFails))
    /\ probes' = probes + 1
    /\ UNCHANGED <<envVars, _default_compiler, _default_version, desc, built, op,
                   args, ret, events, first>>

\* the first target of the assignment: Toolchain._default_compiler = ...
ThreadStoreCompiler(t) ==
    /\ threads[t].pc = "store_compiler"
    /\ _default_compiler' = threads[t].c
    /\ Moved(t, "store_version", threads[t].c, threads[t].v, <<>>)
    /\ UNCHANGED <<envVars, vswhere, _default_version, desc, built, op, args, ret,
                   events, probes, first>>

ThreadStoreVersionSkipped(t) ==
    /\ threads[t].pc = "store_version"
    /\ Moved(t, "return_compiler", None, None, <<>>)
    /\ UNCHANGED <<envVars, vswhere, _default_compiler, _default_version, desc,
                   built, op, args, ret, events, probes, first>>

\* the second target: Toolchain._default_version = ...
ThreadStoreVersion(t) ==
    /\ threads[t].pc = "store_version"
    /\ _default_version' = threads[t].v
    /\ Moved(t, "return_compiler", None, None, <<>>)
    /\ UNCHANGED <<envVars, vswhere, _default_compiler, desc, built, op, args, ret,
                   events, probes, first>>

\* return Toolchain._default_compiler, Toolchain._default_version: the first
\* element is read
ThreadReturnCompiler(t) ==
    /\ threads[t].pc = "return_compiler"
    /\ Moved(t, "return_version", _default_compiler, None, <<>>)
    /\ UNCHANGED <<envVars, vswhere, _default_compiler, _default_version, desc,
                   built, op, args, ret, events, probes, first>>

\* ... the second is read and the pair returned
ThreadReturnVersion(t) ==
    /\ threads[t].pc = "return_version"
    /\ Moved(t, "done", None, None, <<threads[t].c, _default_version>>)
    /\ UNCHANGED <<envVars, vswhere, _default_compiler, _default_version, desc,
                   built, op, args, ret, events, probes, first>>

\* _compiler_version(cc)
CompilerVersion ==
    \E cc \in {BinDir \o "cc", BinDir \o "gcc"} :
        /\ op' = "_compiler_version"
        /\ args' = <<cc>>
        /\ ret' = _compiler_version(cc)
        /\ events' = <<>>
        /\ UNCHANGED <<envVars, threads, vswhere, _default_compiler, _default_version, desc,
                       built, probes, first>>

\* _is_cross_compile(target_os, target_arch)
IsCrossCompile ==
    \E target_os \in TargetOSes, target_arch \in TargetArchs :
        /\ op' = "_is_cross_compile"
        /\ args' = <<target_os, target_arch>>
        /\ ret' = _is_cross_compile(target_os, target_arch)
        /\ events' = <<>>
        /\ UNCHANGED <<envVars, threads, vswhere, _default_compiler, _default_version, desc,
                       built, probes, first>>

-----------------------------------------------------------------------------
(* The descriptor, on hosts with at most MaxInstalled installations *)

Init ==
    /\ hostOS \in HostOSes
    /\ hostArch \in HostArchs
    /\ fs \in IF hostOS = "windows"
             THEN SearchPaths({"clang"}, {"junk"}, MaxInstalled)
             ELSE SearchPaths({"clang", "gcc-9"}, {"clang11", "junk"}, MaxInstalled)
    /\ envCC = None
    /\ vswhere \in IF hostOS = "windows" THEN BOOLEAN ELSE {FALSE}
    /\ vsInstalled \in IF hostOS = "windows" THEN {{}, {"16"}} ELSE {{}}
    /\ Cardinality(DOMAIN fs) + Cardinality(vsInstalled) <= MaxInstalled
    /\ Fresh

Next ==
    \/ Construct
    \/ ConstructFromSpec
    \/ CompilerPath
    \/ CxxCompilerPath

Spec == Init /\ [][Next]_vars

-----------------------------------------------------------------------------
(* The default compiler cache, on hosts with at most MaxInstalled          *)
(* installations                                                           *)

InitCache ==
    /\ hostOS \in HostOSes
    /\ hostArch \in HostArchs
    /\ fs \in SearchPaths({"cc", "clang", "gcc-9"}, {"clang11", "gcc9", "junk"},
                          MaxInstalled)
    /\ envCC \in IF hostOS = "windows" THEN {None} ELSE {None, "clang"}
    /\ vswhere \in IF hostOS = "windows" THEN BOOLEAN ELSE {FALSE}
    /\ vsInstalled \in IF hostOS = "windows" THEN {{}, {"15"}, {"17"}} ELSE {{}}
    /\ Cardinality(DOMAIN fs) + Cardinality(vsInstalled) <= MaxInstalled
    /\ Fresh

NextCache ==
    \/ DefaultCompiler
    \/ FindMsvc

SpecCache == InitCache /\ [][NextCache]_vars

-----
(* MSVC discovery on Windows hosts *)

InitMsvc ==
    /\ hostOS = "windows"
    /\ hostArch \in HostArchs
    /\ fs = <<>>
    /\ envCC = None
    /\ vswhere \in BOOLEAN
    /\ vsInstalled \in SUBSET {"14", "15", "16", "17"}
    /\ Fresh

NextMsvc == FindMsvc

SpecMsvc == InitMsvc /\ [][NextMsvc]_vars

-----------------------------------------------------------------------------
(* The tool locator over search paths of at most MaxOnPath executables *)

InitLocator ==
    /\ hostOS \in {"linux", "windows"}
    /\ hostArch = "x64"
    /\ fs \in SearchPaths({"clang", "clang-11", "clang-11.0", "clang-12", "clang-9.0",
                           "gcc", "gcc-9", "gcc-10"},
                          {"clang11", "gcc9", "gcc48", "junk"}, MaxOnPath)
    /\ envCC = None
    /\ vswhere = FALSE
    /\ vsInstalled = {}
    /\ Fresh

NextLocator == FindCompilerTool

SpecLocator == InitLocator /\ [][NextLocator]_vars

-----------------------------------------------------------------------------
(* The cross-compile policy over every host *)

InitPolicy ==
    /\ hostOS \in HostOSes
    /\ hostArch \in HostArchs
    /\ fs = <<>>
    /\ envCC = None
    /\ vswhere = FALSE
    /\ vsInstalled = {}
    /\ Fresh

NextPolicy == IsCrossCompile

SpecPolicy == InitPolicy /\ [][NextPolicy]_vars

-----------------------------------------------------------------------------
(* The default resolution on hosts that are not Windows, with at most      *)
(* MaxOnPath executables on the search path                                *)

InitDefault ==
    /\ hostOS \in {"linux", "macos"}
    /\ hostArch \in HostArchs
    /\ fs \in SearchPaths({"cc", "clang", "clang-11", "gcc", "gcc-9"},
                          {"clang11", "gcc9", "junk"}, MaxOnPath)
    /\ envCC \in {None, "clang", "gcc-9"}
    /\ vswhere = FALSE
    /\ vsInstalled = {}
    /\ Fresh

NextDefault == DefaultCompiler

SpecDefault == InitDefault /\ [][NextDefault]_vars

-----------------------------------------------------------------------------
(* The family locators and the enumeration, with at most MaxOnPath         *)
(* executables on the search path                                          *)

InitFamilies ==
    /\ hostOS \in HostOSes
    /\ hostArch = "x64"
    /\ fs \in IF hostOS = "windows"
             THEN SearchPaths({"clang-11", "gcc-9"}, {"junk"}, MaxOnPath)
             ELSE SearchPaths({"clang", "clang-11", "gcc-9"},
                              {"clang11", "apple14", "junk"}, MaxOnPath)
    /\ envCC = None
    /\ vswhere \in IF hostOS = "windows" THEN BOOLEAN ELSE {FALSE}
    /\ vsInstalled \in IF hostOS = "windows" THEN {{}, {"15"}, {"17"}} ELSE {{}}
    /\ Fresh

NextFamilies ==
    \/ FindGccTool
    \/ FindLlvmTool
    \/ FindAppleLlvmCompiler
    \/ FindMsvc
    \/ FindCompiler
    \/ FindTool
    \/ AllCompilers
    \/ IsCompilerInstalled

SpecFamilies == InitFamilies /\ [][NextFamilies]_vars

-----------------------------------------------------------------------------
(* Two threads in default_compiler(), interleaved at each read and write   *)
(* of the class attributes                                                 *)

InitThreads ==
    /\ hostOS \in HostOSes
    /\ hostArch \in HostArchs
    /\ fs \in SearchPaths({"cc", "clang", "gcc-9"}, {"clang11", "gcc9", "junk"},
                          MaxInstalled)
    /\ envCC \in IF hostOS = "windows" THEN {None} ELSE {None, "clang"}
    /\ vswhere \in IF hostOS = "windows" THEN BOOLEAN ELSE {FALSE}
    /\ vsInstalled \in IF hostOS = "windows" THEN {{}, {"16"}} ELSE {{}}
    /\ Cardinality(DOMAIN fs) + Cardinality(vsInstalled) <= MaxInstalled
    /\ Fresh

NextThreads ==
    \E t \in Threads :
        \/ ThreadCheckCompiler(t)
        \/ ThreadCheckVersion(t)
        \/ ThreadProbe(t)
        \/ ThreadStoreCompiler(t)
        \/ ThreadStoreVersion(t)
        \/ ThreadReturnCompiler(t)
        \/ ThreadReturnVersion(t)

SpecThreads == InitThreads /\ [][NextThreads]_vars

-----------------------------------------------------------------------------
(* The banner parser over every banner *)

Banners == {"clang11", "apple14", "applellvm9", "gcc9", "gcc48", "noteclang",
            "gccclang", "gccapple", "year", "junk"}

InitParser ==
    /\ hostOS \in HostOSes
    /\ hostArch \in HostArchs
    /\ fs \in SearchPaths({"cc", "gcc"}, Banners, MaxInstalled)
    /\ envCC = None
    /\ vswhere = FALSE
    /\ vsInstalled = {}
    /\ Fresh

NextParser == CompilerVersion

SpecParser == InitParser /\ [][NextParser]_vars

-----------------------------------------------------------------------------
(* Properties *)

\* C1: whenever the cross-compile policy is true of a constructed
\* descriptor's target and arch, its compiler is "gcc" and its
\* compiler_version "4.8", whatever was requested or copied from a basis.
C1_CrossCompileForcesGcc ==
    (desc # NoToolchain /\ _is_cross_compile(desc.target, desc.arch))
        => desc.compiler = "gcc" /\ desc.compiler_version = "4.8"

\* a cross-compiling descriptor was constructed although clang was requested
C1_Witness ==
    /\ op = "Toolchain"
    /\ ret = "ok"
    /\ "compiler" \in DOMAIN args
    /\ args.compiler = "clang"
    /\ _is_cross_compile(desc.target, desc.arch)
    /\ desc.compiler = "gcc"

\* C2: _is_cross_compile is false on a macos host for a macos or ios target,
\* false on a windows host for a windows target, and otherwise true exactly
\* when the target OS differs from the host OS or the normalized target arch
\* differs from the host arch.
C2_CrossCompilePolicy ==
    op = "_is_cross_compile" =>
        ret = IF hostOS = "macos" /\ args[1] \in {"macos", "ios"} THEN FALSE
              ELSE IF hostOS = "windows" /\ args[1] = "windows" THEN FALSE
              ELSE args[1] # hostOS \/ normalize_arch(args[2]) # hostArch

\* the policy said "native" for an arch that only equals the host's once
\* normalized
C2_Witness ==
    /\ op = "_is_cross_compile"
    /\ hostOS = "linux"
    /\ hostArch = "arm64"
    /\ args = <<"linux", "aarch64">>
    /\ ret = FALSE

\* C3: over the process _find_compiler runs at most once, and every
\* default_compiler() without hints returns what the first one returned.
C3_ProbedAtMostOnce ==
    /\ probes <= 1
    /\ (op = "default_compiler" /\ args = <<None, None>>) => ret = first

\* C4: default_compiler(target, arch) with a target and arch the policy calls
\* a cross compile returns ("gcc", "4.8") in every state of the cache.
C4_CrossHintsGiveFallback ==
    (/\ op = "default_compiler"
     /\ Truthy(args[1])
     /\ Truthy(args[2])
     /\ _is_cross_compile(args[1], args[2]))
        => ret = <<"gcc", "4.8">>

\* C5: Toolchain(spec=D) with no other field, in the environment D was
\* constructed in, has D's canonical name.
C5_RebuildKeepsName ==
    (/\ op = "Toolchain"
     /\ DOMAIN args = {"spec"}
     /\ ret = "ok"
     /\ built[1] = built[2])
        => desc.name = args.spec

\* C6: a construction without a basis never fails on a missing field,
\* whichever fields are supplied.
C6_EveryFieldDefaulted ==
    (op = "Toolchain" /\ "spec" \notin DOMAIN args) => ret = "ok"

\* the result the claims C7 and C8 give the scan of the versioned names: the
\* first version of the list that has name-version or name-version.0 on the
\* search path, with name-version preferred
VersionedChoice(name, versions) ==
    LET plain(v) == name \o "-" \o v
        zero(v) == name \o "-" \o v \o ".0"
        has == {i \in 1..Len(versions) :
                   plain(versions[i]) \in DOMAIN fs \/ zero(versions[i]) \in DOMAIN fs}
    IN  IF has = {}
        THEN <<None, None>>
        ELSE LET v == versions[CHOOSE i \in has : \A j \in has : i <= j]
             IN  <<IF plain(v) \in DOMAIN fs THEN BinDir \o plain(v) ELSE BinDir \o zero(v),
                   v>>

\* C7: when the unversioned name is not on the search path,
\* _find_compiler_tool returns the first version in list order that has
\* name-version or name-version.0 there, name-version first, whatever banner
\* that executable prints, and (None, None) when there is none.
C7_VersionedScan ==
    (op = "_find_compiler_tool" /\ args[1] \notin DOMAIN fs)
        => ret = VersionedChoice(args[1], args[2])

\* of [12, 11] only clang-11 is installed, and no clang
C7_Witness ==
    /\ op = "_find_compiler_tool"
    /\ args = <<"clang", <<"12", "11">>>>
    /\ DOMAIN fs = {"clang-11"}
    /\ ret = <<BinDir \o "clang-11", "11">>

\* C8: an unversioned binary whose banner version is not in the list (or is
\* not classified) is not returned, the versioned names are scanned instead,
\* and every result that is not (None, None) has a version of the list.
C8_UnversionedNeedsListedVersion ==
    op = "_find_compiler_tool" =>
        /\ ret # <<None, None>> => InList(ret[2], args[2])
        /\ (/\ args[1] \in DOMAIN fs
            /\ ~InList(_compiler_version(BinDir \o args[1])[2], args[2]))
               => /\ ret[1] # BinDir \o args[1]
                  /\ ret = VersionedChoice(args[1], args[2])

\* clang classifies as 9, which is not asked for, and clang-11 is taken
C8_Witness ==
    /\ op = "_find_compiler_tool"
    /\ args = <<"clang", <<"11">>>>
    /\ "clang" \in DOMAIN fs
    /\ _compiler_version(BinDir \o "clang") = <<"gcc", "9">>
    /\ ret = <<BinDir \o "clang-11", "11">>

\* C9: on a cross-compiling descriptor compiler_path() and
\* cxx_compiler_path() fail their assertion before anything is invoked, and
\* leave the default compiler cache and the search path as they were.
C9_PathsAssertWhenCross ==
    [][(op' \in {"compiler_path", "cxx_compiler_path"} /\ desc'.cross_compile)
           => /\ ret' = "AssertionError"
              /\ events' = <<>>
              /\ UNCHANGED <<_default_compiler, _default_version, probes, vswhere>>]_vars

\* compiler_path() failed on a cross-compiling descriptor while the cache
\* held a resolved default
C9_Witness ==
    /\ op = "compiler_path"
    /\ desc.cross_compile
    /\ ret = "AssertionError"
    /\ Truthy(_default_compiler)

\* how often command e was run in the last operation
Count(e) == Cardinality({i \in 1..Len(events) : events[i] = e})

\* C10: a find_msvc call that finds vswhere missing runs the package manager
\* exactly once, and when that install fails returns (None, None) without
\* running vswhere.
C10_InstallAttemptedOnce ==
    (op = "find_msvc" /\ events # <<>> /\ events[1] = "choco")
        => /\ Count("choco") = 1
           /\ (Len(events) = 1 \/ events[2] # "installed")
                  => ret = <<None, None>> /\ Count("vswhere") = 0

\* the rules of the banner parser that match a line, by precedence: 1 Apple
\* clang, 2 generic clang, 3 GCC 4.x, 4 GCC 5+
RulesMatching(text) ==
    {r \in 1..4 : CASE r = 1 -> MatchApple(text) # None
                    [] r = 2 -> MatchClang(text) # None
                    [] r = 3 -> MatchGcc4(text) # None
                    [] r = 4 -> MatchGcc(text) # None}

\* what rule r makes of a line it matches
RuleResult(r, text) ==
    CASE r = 1 -> <<"appleclang", MatchApple(text)>>
      [] r = 2 -> <<"clang", MatchClang(text)>>
      [] r = 3 -> <<"gcc", MatchGcc4(text)>>
      [] r = 4 -> <<"gcc", MatchGcc(text)>>

\* C11: on a host that is not Windows _compiler_version returns what the
\* highest-precedence rule matching the first matching output line makes of
\* that line (Apple clang, generic clang, GCC 4.x in full, GCC 5+ by major);
\* it returns (None, None) when no line matches and always on Windows.
C11_FirstLineFirstRule ==
    op = "_compiler_version" =>
        LET lines == run_version(args[1])
            matching == {i \in 1..Len(lines) : RulesMatching(lines[i]) # {}}
        IN  IF hostOS = "windows" \/ matching = {}
            THEN ret = <<None, None>>
            ELSE LET text == lines[CHOOSE i \in matching : \A j \in matching : i <= j]
                     rule == CHOOSE r \in RulesMatching(text) :
                                 \A q \in RulesMatching(text) : r <= q
                 IN  ret = RuleResult(rule, text)

\* a line that the Apple and the generic clang rule both match was
\* classified as appleclang
C11_Witness ==
    /\ op = "_compiler_version"
    /\ hostOS = "macos"
    /\ args = <<BinDir \o "cc">>
    /\ "cc" \in DOMAIN fs
    /\ fs["cc"] = "apple14"
    /\ MatchClang(run_version(args[1])[1]) # None
    /\ ret = <<"appleclang", "14">>

\* C12: a default_compiler(target, arch) call whose target and arch the
\* policy calls a cross compile leaves _default_compiler and
\* _default_version as they were, runs no probing and invokes nothing.
C12_CrossHintsLeaveCache ==
    [][(/\ op' = "default_compiler"
        /\ Truthy(args'[1])
        /\ Truthy(args'[2])
        /\ _is_cross_compile(args'[1], args'[2]))
           => /\ UNCHANGED <<_default_compiler, _default_version, probes, vswhere>>
              /\ events' = <<>>]_vars

\* the cross-compile branch was taken on an empty cache, and the cache is
\* still empty
C12_Witness ==
    /\ op = "default_compiler"
    /\ args = <<"windows", "aarch64">>
    /\ hostOS = "linux"
    /\ ret = <<"gcc", "4.8">>
    /\ _default_compiler = None
    /\ _default_version = None
    /\ probes = 0

\* the default the order CC, cc, clang discovery, gcc discovery gives
DefaultByOrder ==
    LET whole(p) == Truthy(p[1]) /\ Truthy(p[2])
        byCC == _compiler_version(where(envCC))
        bycc == _compiler_version(where("cc"))
        clang == find_llvm_tool("clang", None)
        gcc == find_gcc_tool("gcc", None)
    IN  IF whole(byCC) THEN byCC
        ELSE IF whole(bycc) THEN bycc
        ELSE IF clang[1] # None THEN <<"clang", clang[2]>>
        ELSE IF gcc[1] # None THEN <<"gcc", gcc[2]>>
        ELSE <<None, None>>

\* C13: on a host that is not Windows a default_compiler call that probes
\* returns the first success of: the banner classification of CC, that of
\* cc, clang discovery, gcc discovery.
C13_ResolutionOrder ==
    (op = "default_compiler" /\ events # <<>> /\ hostOS # "windows")
        => ret = DefaultByOrder

\* clang-11 and gcc-9 are both installed, nothing else, and clang is chosen
C13_Witness ==
    /\ op = "default_compiler"
    /\ events # <<>>
    /\ DOMAIN fs = {"clang-11", "gcc-9"}
    /\ ret = <<"clang", "11">>

\* C14: every default_compiler result has both a family and a version or is
\* (None, None).
C14_ResultWholeOrAbsent ==
    op = "default_compiler" =>
        \/ Truthy(ret[1]) /\ Truthy(ret[2])
        \/ ret = <<None, None>>

\* C15: every locator operation returns a present path with a present
\* version, or (None, None).
C15_PathAndVersionTogether ==
    op \in {"find_gcc_tool", "find_llvm_tool", "find_apple_llvm_compiler",
            "find_msvc", "find_compiler", "find_compiler_tool"}
        => \/ Truthy(ret[1]) /\ Truthy(ret[2])
           \/ ret = <<None, None>>

\* an unversioned clang whose banner cannot be classified is on the search
\* path, and the locator reports absence and not its path without a version
C15_Witness ==
    /\ op = "find_llvm_tool"
    /\ args = <<"clang", None>>
    /\ DOMAIN fs = {"clang"}
    /\ _compiler_version(BinDir \o "clang") = <<None, None>>
    /\ ret = <<None, None>>

\* the place of a family in the order of the enumeration
FamilyRank(family) ==
    CASE family = "gcc" -> 1
      [] family \in {"clang", "appleclang"} -> 2
      [] family = "msvc" -> 3
      [] OTHER -> 0

\* C20: every pair all_compilers() reports is installed according to
\* is_compiler_installed in the environment the call leaves, and the pairs
\* come as GCC versions, then clang (appleclang on macos) versions, then, on
\* Windows only, MSVC versions.
C20_ReportedAreInstalled ==
    op = "all_compilers" =>
        /\ \A i \in DOMAIN ret : \A oracle \in Oracles(vswhere) :
               is_compiler_installed(ret[i][1], ret[i][2], vswhere, oracle).ret
        /\ \A i, j \in DOMAIN ret :
               i < j => FamilyRank(ret[i][1]) <= FamilyRank(ret[j][1])
        /\ \A i \in DOMAIN ret :
               /\ FamilyRank(ret[i][1]) # 0
               /\ ret[i][1] = "msvc" => hostOS = "windows"
               /\ ret[i][1] = "appleclang" => hostOS = "macos"
               /\ ret[i][1] = "clang" => hostOS # "macos"

\* on a Windows host with gcc-9, clang-11 and Visual Studio 17 the three
\* families are reported in order
C20_Witness ==
    /\ op = "all_compilers"
    /\ hostOS = "windows"
    /\ ret = << <<"gcc", "9">>, <<"clang", "11">>, <<"msvc", "16">>, <<"msvc", "15">> >>

\* the executables and installations a locator can return the path of
InstalledPaths ==
    {BinDir \o exe : exe \in DOMAIN fs} \cup {VsDir \o v : v \in vsInstalled}

\* C16: on a descriptor that is not cross-compiling compiler_path() returns
\* None or the path of an installed executable, never a family name.
C16_PathNeverFamilyName ==
    (op = "compiler_path" /\ ~desc.cross_compile)
        => ret = None \/ ret \in InstalledPaths

\* the value the construction being made has for a slot before the target
\* and arch defaults: the keyword, else the basis's field, else "default"
Asked(slot) ==
    IF slot \in DOMAIN args' THEN args'[slot]
    ELSE IF "spec" \in DOMAIN args'
    THEN IF slot = "arch" THEN normalize_arch(desc.arch) ELSE desc[slot]
    ELSE "default"

\* its target and arch after those defaults
AskedTarget == IF Asked("target") = "default" THEN hostOS ELSE Asked("target")
AskedArch == IF Asked("arch") = "default" THEN hostArch ELSE Asked("arch")

\* the executable located for the compiler it asks for
AskedCompilerPath ==
    find_compiler(Asked("compiler"), None, vswhere,
                  CHOOSE oracle \in Oracles(vswhere) : TRUE).ret[1]

\* C17: a construction that is not a cross compile, with an explicit
\* compiler and the compiler_version "default", completes, and its
\* compiler_version is the version the banner of the located executable is
\* classified as, or "default" when it is not classified; never None.
C17_DefaultVersionResolved ==
    [][(/\ op' = "Toolchain"
        /\ "spec" \in DOMAIN args' \/ "default" \in DOMAIN args'
        /\ Asked("compiler") \in {"gcc", "clang"}
        /\ Asked("compiler_version") = "default"
        /\ ~_is_cross_compile(AskedTarget, AskedArch))
           => /\ ret' = "ok"
              /\ desc'.compiler = Asked("compiler")
              /\ desc'.compiler_version # None
              /\ desc'.compiler_version =
                     IF _compiler_version(AskedCompilerPath)[2] # None
                     THEN _compiler_version(AskedCompilerPath)[2]
                     ELSE "default"]_vars

\* gcc was asked for on a basis with the version "default"; gcc-9 is
\* located, its banner is not classified, and the version stays "default"
C17_Witness ==
    /\ op = "Toolchain"
    /\ ret = "ok"
    /\ "spec" \in DOMAIN args
    /\ "compiler" \in DOMAIN args
    /\ ~desc.cross_compile
    /\ desc.compiler = "gcc"
    /\ desc.compiler_version = "default"
    /\ "gcc-9" \in DOMAIN fs
    /\ _compiler_version(BinDir \o "gcc-9") = <<None, None>>

\* the helper was there for the whole of the last find_msvc call: on the
\* search path, or installed by the call's first attempt
HelperAvailable ==
    /\ events # <<>>
    /\ \/ events[1] = "vswhere"
       \/ Len(events) >= 2 /\ events[1] = "choco" /\ events[2] = "installed"

\* what find_msvc is to return when version v is the one to report
FirstReported(v) ==
    IF vswhere_output(v) # <<>> THEN <<vswhere_output(v)[1], v>> ELSE <<None, None>>

\* the known MSVC versions for which the helper reports an installation
Yielding == {v \in COMPILERS.msvc \ {"default"} : vswhere_output(v) # <<>>}

\* C18: find_msvc(V) returns the first installation the helper reports for V
\* paired with V; find_msvc() returns that pair for the numerically highest
\* known MSVC version for which the helper reports an installation, and
\* (None, None) when there is none.
C18_RequestedVersionOrNewestKnown ==
    (op = "find_msvc" /\ HelperAvailable) =>
        IF args[1] # None
        THEN ret = FirstReported(args[1])
        ELSE IF Yielding = {}
        THEN ret = <<None, None>>
        ELSE ret = FirstReported(CHOOSE v \in Yielding :
                                     \A w \in Yielding : IntOf(w) <= IntOf(v))

\* with Visual Studio 15 and 17 installed find_msvc() returns the path of
\* 17 paired with 16, the highest known version
C18_Witness ==
    /\ op = "find_msvc"
    /\ args = <<None>>
    /\ HelperAvailable
    /\ vsInstalled = {"15", "17"}
    /\ ret = <<VsDir \o "17", "16">>

\* what a resolution made alone on this host returns
Serialized ==
    IF hostOS = "windows"
    THEN <<"msvc", find_msvc(None, vswhere, ChocoFails).ret[2]>>
    ELSE DefaultByOrder

\* C19: when two threads run default_compiler() concurrently in an
\* environment that does not change, every call returns the pair a
\* resolution made alone returns, and once both have returned the cache
\* holds that pair; probing may have run once per thread.
C19_ThreadsAgree ==
    /\ \A t \in Threads : threads[t].pc = "done" => threads[t].ret = Serialized
    /\ (\A t \in Threads : threads[t].pc = "done")
           => /\ <<_default_compiler, _default_version>> = Serialized
              /\ probes \in 1..Cardinality(Threads)

\* both threads probed, one after the other had stored the family only, and
\* both returned the same whole pair
C19_Witness ==
    /\ \A t \in Threads : threads[t].pc = "done" /\ threads[t].ret = <<"clang", "11">>
    /\ probes = 2
    /\ <<_default_compiler, _default_version>> = <<"clang", "11">>

====
